---- MODULE Spec2Model ----
(***************************************************************************)
(* Prompt navigation and memory allocation of the Thousand Year Old        *)
(* Vampire web application: the POST /api/prompt-history handler of        *)
(* server/routes.ts and the client memory operations of memory-list.tsx,   *)
(* game-interface.tsx and prompt-system.tsx, for one character played by   *)
(* one client.  The client's cached copy of the character row is replaced  *)
(* by the row every PATCH returns (pages/character.tsx:94-97), so between  *)
(* two operations it equals the stored row and is not kept separately.     *)
(* Memory titles and timestamps are not modelled; a memory id is the       *)
(* memory's rank of creation (ids are random strings in the code, and      *)
(* memories are never removed from the pool).  The save-to-memory dialog   *)
(* is modal: while it is open only its own controls are used.  The         *)
(* requests of SpecRace come from two further tabs of the same user; the   *)
(* server runs every request as the steps between its awaits.              *)
(***************************************************************************)
EXTENDS Integers, Sequences, FiniteSets, TLC

VARIABLES prompts, currentPrompt, currentLetter, visitedPrompts, memories,
          localPromptNumber, localPromptLetter, memoryDialog, result, requests,
          others

vars == <<prompts, currentPrompt, currentLetter, visitedPrompts, memories,
          localPromptNumber, localPromptLetter, memoryDialog, result, requests,
          others>>

(* ---------------- bounds of the model ---------------- *)

\* highest prompt number a roll may lead to
MaxPrompt == 3

\* highest character code (as an index of Alphabet) a roll may produce
MaxCode == 4

\* longest memory pool
MaxPool == 6

\* the client clicks archive / strike out / delete / select only on the
\* memories with an id up to this one
MaxTarget == 2

(* ---------------- program constants ---------------- *)

MaxExperiences == 3

MaxActiveMemories == 5

NULL == "null"

\* the characters from 'a' on, in code order
Alphabet == <<"a", "b", "c", "d", "e", "f">>

\* String.charCodeAt(0), relative to 'a' = 1
CharCode(l) == CHOOSE i \in 1..Len(Alphabet) : Alphabet[i] = l

\* String.fromCharCode
FromCharCode(c) == Alphabet[c]

\* Array.prototype.includes
Includes(s, x) == \E i \in 1..Len(s) : s[i] = x

\* Array.prototype.findIndex over the answers of the callback, 1-based;
\* 0 when no element is accepted
FindIndex(accepted) ==
    IF \E i \in 1..Len(accepted) : accepted[i]
    THEN CHOOSE i \in 1..Len(accepted) :
            accepted[i] /\ \A j \in 1..(i - 1) : ~accepted[j]
    ELSE 0

\* a || b that takes the right operand
OrNum_right(a, b) == b

\* a || b on numbers (0 is falsy)
OrNum(a, b) == IF a # 0 THEN a ELSE b

\* a || b on strings ("" is falsy)
OrStr(a, b) == IF a # "" THEN a ELSE b

Max(a, b) == IF a >= b THEN a ELSE b

(* ---------------- the prompt catalog ---------------- *)

Row(n, l) == [promptNumber |-> n, promptLetter |-> l]

\* rows of the prompts table in the order the query returns them
Catalogs ==
    { <<>>,
      << Row(1,"a"), Row(1,"b"), Row(1,"c"), Row(2,"a"), Row(2,"b"), Row(2,"c") >>,
      << Row(1,"b"), Row(3,"a") >> }

RECURSIVE UniquePromptNumbers(_, _)
\* routes.ts 442-450: numbers of the rows, first occurrence kept
UniquePromptNumbers(rows, acc) ==
    IF rows = <<>> THEN acc
    ELSE UniquePromptNumbers(Tail(rows),
            IF Includes(acc, Head(rows).promptNumber) THEN acc
            ELSE Append(acc, Head(rows).promptNumber))

RECURSIVE InsertSorted(_, _)
InsertSorted(s, x) ==
    IF s = <<>> THEN <<x>>
    ELSE IF x < Head(s) THEN <<x>> \o s
    ELSE <<Head(s)>> \o InsertSorted(Tail(s), x)

RECURSIVE SortNumbers(_)
\* routes.ts 453: sort((a, b) => a - b)
SortNumbers(s) ==
    IF s = <<>> THEN <<>>
    ELSE InsertSorted(SortNumbers(Tail(s)), Head(s))

\* SortedPromptNumbers that keeps the numbers in the order of the rows
SortedPromptNumbers_unsorted(rows) == UniquePromptNumbers(rows, <<>>)

\* routes.ts 440-455
SortedPromptNumbers(rows) == SortNumbers(UniquePromptNumbers(rows, <<>>))

(* ---------------- the visit record ---------------- *)

\* visitedPrompts.find(p => p.promptNumber === n): index of the entry, or 0
VisitedIndex(visited, n) ==
    FindIndex([i \in 1..Len(visited) |-> visited[i].promptNumber = n])

\* routes.ts 471-474: the candidate number is not fully visited
NotFullyVisited(visited, n) ==
    LET i == VisitedIndex(visited, n) IN
    \/ i = 0
    \/ Len(visited[i].letters) < 3
    \/ ~Includes(visited[i].letters, "a")
    \/ ~Includes(visited[i].letters, "b")
    \/ ~Includes(visited[i].letters, "c")

\* routes.ts 480-494: letter of a redirect target
RedirectLetter(visited, n) ==
    LET i == VisitedIndex(visited, n) IN
    IF i # 0
    THEN IF ~Includes(visited[i].letters, "a") THEN "a"
         ELSE IF ~Includes(visited[i].letters, "b") THEN "b"
         ELSE IF ~Includes(visited[i].letters, "c") THEN "c"
         ELSE "a"
    ELSE "a"

\* Redirect that takes the letter of the first row of the target number
Redirect_contentLetter(cur, visited, rows) ==
    LET sorted == SortedPromptNumbers(rows)
        currentIndex == FindIndex([i \in 1..Len(sorted) |-> sorted[i] = cur])
        cands == { i \in (currentIndex + 1)..Len(sorted) :
                     NotFullyVisited(visited, sorted[i]) }
    IN IF currentIndex > 0
       THEN IF cands # {}
            THEN LET i == CHOOSE k \in cands : \A m \in cands : k <= m
                     r == FindIndex([k \in 1..Len(rows) |->
                                        rows[k].promptNumber = sorted[i]])
                 IN [nextPrompt |-> sorted[i],
                     nextLetter |-> rows[r].promptLetter]
            ELSE [nextPrompt |-> sorted[Len(sorted)] + 1, nextLetter |-> "a"]
       ELSE [nextPrompt |-> cur,
             nextLetter |-> FromCharCode(CharCode("c") + 1)]

\* routes.ts 437-512: zero movement at letter 'c'
Redirect(cur, visited, rows) ==
    LET sorted == SortedPromptNumbers(rows)
        currentIndex == FindIndex([i \in 1..Len(sorted) |-> sorted[i] = cur])
        cands == { i \in (currentIndex + 1)..Len(sorted) :
                     NotFullyVisited(visited, sorted[i]) }
    IN IF currentIndex > 0
       THEN IF cands # {}
            THEN LET i == CHOOSE k \in cands : \A m \in cands : k <= m IN
                 [nextPrompt |-> sorted[i],
                  nextLetter |-> RedirectLetter(visited, sorted[i])]
            ELSE [nextPrompt |-> sorted[Len(sorted)] + 1, nextLetter |-> "a"]
       ELSE [nextPrompt |-> cur,
             nextLetter |-> FromCharCode(CharCode("c") + 1)]

\* RevisitLetter with the fully visited case falling back to 'a'
RevisitLetter_restart(letters) ==
    IF ~Includes(letters, "b") /\ Includes(letters, "a") THEN "b"
    ELSE IF ~Includes(letters, "c") /\ Includes(letters, "a") THEN "c"
    ELSE "a"

\* routes.ts 517-538: letter on a nonzero movement to a visited number
RevisitLetter(letters) ==
    IF Includes(letters, "a") /\ Includes(letters, "b") /\ Includes(letters, "c")
    THEN "c"
    ELSE IF ~Includes(letters, "a") THEN "a"
    ELSE IF ~Includes(letters, "b") THEN "b"
    ELSE "c"

\* NextPosition with the floor of 1 applied before the movement is added
NextPosition_floorFirst(cur, letter, movement, visited, rows) ==
    IF movement = 0
    THEN IF letter = "c"
         THEN Redirect(cur, visited, rows)
         ELSE [nextPrompt |-> cur,
               nextLetter |-> FromCharCode(CharCode(letter) + 1)]
    ELSE LET target == Max(1, cur) + movement
             i == VisitedIndex(visited, target)
         IN [nextPrompt |-> target,
             nextLetter |-> IF i # 0 THEN RevisitLetter(visited[i].letters)
                            ELSE "a"]

\* routes.ts 399-538: the next position
NextPosition(cur, letter, movement, visited, rows) ==
    IF movement = 0
    THEN IF letter = "c"
         THEN Redirect(cur, visited, rows)
         ELSE [nextPrompt |-> cur,
               nextLetter |-> FromCharCode(CharCode(letter) + 1)]
    ELSE LET target == Max(1, cur + movement)
             i == VisitedIndex(visited, target)
         IN [nextPrompt |-> target,
             nextLetter |-> IF i # 0 THEN RevisitLetter(visited[i].letters)
                            ELSE "a"]

\* TrackVisit that adds no letter to an entry that exists
TrackVisit_firstOnly(visited, n, l) ==
    LET i == VisitedIndex(visited, n) IN
    IF i > 0 THEN visited
    ELSE Append(visited, [promptNumber |-> n, letters |-> <<l>>])

\* TrackVisit that keeps only the latest letter of an entry
TrackVisit_overwrite(visited, n, l) ==
    LET i == VisitedIndex(visited, n) IN
    IF i > 0 THEN [visited EXCEPT ![i].letters = <<l>>]
    ELSE Append(visited, [promptNumber |-> n, letters |-> <<l>>])

\* TrackVisit that pushes the letter without looking for it
TrackVisit_push(visited, n, l) ==
    LET i == VisitedIndex(visited, n) IN
    IF i > 0 THEN [visited EXCEPT ![i].letters = Append(@, l)]
    ELSE Append(visited, [promptNumber |-> n, letters |-> <<l>>])

\* TrackVisit that makes no entry for a number it does not hold
TrackVisit_knownNumbers(visited, n, l) ==
    LET i == VisitedIndex(visited, n) IN
    IF i > 0
    THEN IF ~Includes(visited[i].letters, l)
         THEN [visited EXCEPT ![i].letters = Append(@, l)]
         ELSE visited
    ELSE visited

\* routes.ts 587-604: record the next position
TrackVisit(visited, n, l) ==
    LET i == VisitedIndex(visited, n) IN
    IF i > 0
    THEN IF ~Includes(visited[i].letters, l)
         THEN [visited EXCEPT ![i].letters = Append(@, l)]
         ELSE visited
    ELSE Append(visited, [promptNumber |-> n, letters |-> <<l>>])

\* routes.ts 542-585: the prompt data returned for the next position
PromptInfo(rows, n, l) ==
    IF \E i \in 1..Len(rows) : rows[i] = Row(n, l)
    THEN [promptNumber |-> n, promptLetter |-> l, content |-> <<n, l>>]
    ELSE LET i == FindIndex([k \in 1..Len(rows) |-> rows[k].promptNumber = n]) IN
         IF i # 0
         THEN [promptNumber |-> n, promptLetter |-> rows[i].promptLetter,
               content |-> <<n, rows[i].promptLetter>>]
         ELSE [promptNumber |-> n, promptLetter |-> l, content |-> "placeholder"]

(* ---------------- the memory pool ---------------- *)

\* the text of every response
Responses == {"r"}

Experience(text) == [text |-> text]

Memory(id, exps) ==
    [id |-> id, experiences |-> exps, inDiary |-> FALSE, strikedOut |-> FALSE]

\* IsOpen that takes a memory in a diary for open
IsOpen_ignoreDiary(m) == ~m.strikedOut /\ Len(m.experiences) < MaxExperiences

\* IsOpen without the count of experiences
IsOpen_anyCount(m) == ~m.inDiary /\ ~m.strikedOut

\* routes.ts 644-649
IsOpen(m) == ~m.inDiary /\ ~m.strikedOut /\ Len(m.experiences) < MaxExperiences

\* memories.filter(m => !m.strikedOut).length
ActiveCount(pool) == Cardinality({ i \in 1..Len(pool) : ~pool[i].strikedOut })

\* the id of a memory created in this pool
FreshId(pool) == Len(pool) + 1

\* RecordResponse that counts only the memories outside the diary
RecordResponse_diaryFree(pool, text) ==
    LET existingMemoryIndex == FindIndex([i \in 1..Len(pool) |-> IsOpen(pool[i])]) IN
    IF existingMemoryIndex > 0
    THEN [memories |-> [pool EXCEPT ![existingMemoryIndex].experiences =
                                        Append(@, Experience(text))],
          outcome |-> "Appended", memoryUpdated |-> TRUE]
    ELSE IF Cardinality({ i \in 1..Len(pool) :
                            ~pool[i].strikedOut /\ ~pool[i].inDiary })
            < MaxActiveMemories
    THEN [memories |-> Append(pool, Memory(FreshId(pool), <<Experience(text)>>)),
          outcome |-> "Created", memoryUpdated |-> TRUE]
    ELSE [memories |-> pool, outcome |-> "CapacityExceeded",
          memoryUpdated |-> FALSE]

\* RecordResponse that opens a new memory while a slot is free
RecordResponse_createFirst(pool, text) ==
    LET existingMemoryIndex == FindIndex([i \in 1..Len(pool) |-> IsOpen(pool[i])]) IN
    IF ActiveCount(pool) < MaxActiveMemories
    THEN [memories |-> Append(pool, Memory(FreshId(pool), <<Experience(text)>>)),
          outcome |-> "Created", memoryUpdated |-> TRUE]
    ELSE IF existingMemoryIndex > 0
    THEN [memories |-> [pool EXCEPT ![existingMemoryIndex].experiences =
                                        Append(@, Experience(text))],
          outcome |-> "Appended", memoryUpdated |-> TRUE]
    ELSE [memories |-> pool, outcome |-> "CapacityExceeded",
          memoryUpdated |-> FALSE]

\* RecordResponse that puts a new memory at the head of the pool
RecordResponse_unshift(pool, text) ==
    LET existingMemoryIndex == FindIndex([i \in 1..Len(pool) |-> IsOpen(pool[i])]) IN
    IF existingMemoryIndex > 0
    THEN [memories |-> [pool EXCEPT ![existingMemoryIndex].experiences =
                                        Append(@, Experience(text))],
          outcome |-> "Appended", memoryUpdated |-> TRUE]
    ELSE IF ActiveCount(pool) < MaxActiveMemories
    THEN [memories |-> <<Memory(FreshId(pool), <<Experience(text)>>)>> \o pool,
          outcome |-> "Created", memoryUpdated |-> TRUE]
    ELSE [memories |-> pool, outcome |-> "CapacityExceeded",
          memoryUpdated |-> FALSE]

\* routes.ts 638-683: place the response
RecordResponse(pool, text) ==
    LET existingMemoryIndex == FindIndex([i \in 1..Len(pool) |-> IsOpen(pool[i])]) IN
    IF existingMemoryIndex > 0
    THEN [memories |-> [pool EXCEPT ![existingMemoryIndex].experiences =
                                        Append(@, Experience(text))],
          outcome |-> "Appended", memoryUpdated |-> TRUE]
    ELSE IF ActiveCount(pool) < MaxActiveMemories
    THEN [memories |-> Append(pool, Memory(FreshId(pool), <<Experience(text)>>)),
          outcome |-> "Created", memoryUpdated |-> TRUE]
    ELSE [memories |-> pool, outcome |-> "CapacityExceeded",
          memoryUpdated |-> FALSE]

(* ---------------- initial state ---------------- *)

NoResult == [status |-> 0]

ClosedDialog == [isOpen |-> FALSE, experience |-> NULL, selectedMemoryId |-> 0]

\* a pool of five full memories
FullPool ==
    [i \in 1..MaxActiveMemories |->
        Memory(i, [j \in 1..MaxExperiences |-> Experience("r")])]

\* two more PromptSystem instances of the same user (browser tabs), each the
\* origin of one roll request
Tabs == {1, 2}

\* a tab that has not rolled: its local position is the position the
\* character starts at (prompt-system.tsx 36-37)
IdleRequest ==
    [pc |-> "idle", promptNumber |-> 1, promptLetter |-> "a",
     diceRoll |-> [d10 |-> 0, d6 |-> 0], response |-> NULL,
     character |-> NULL, answer |-> NoResult]

\* the users with a session
Users == {1, 2}

\* the ids of the rows of the characters table: the character of the open
\* page and another user's character
CharacterIds == {1, 2}

\* POST /api/character (routes.ts 97-112, schema.ts 45-47) by the second
\* user: the other row of the characters table
OtherCharacters ==
    [id \in CharacterIds \ {1} |->
        [userId |-> 2, currentPrompt |-> 1, currentLetter |-> "a",
         visitedPrompts |-> <<>>, memories |-> <<>>]]


\* POST /api/character (routes.ts 92-112) stores the memories of the request
\* body and starts at prompt 1; the letter and the visit record are the
\* column defaults of db/schema.ts 45-47; the client opens at the stored
\* position (prompt-system.tsx 36-37)
CreateCharacter(rows, pool) ==
    /\ prompts = rows
    /\ currentPrompt = 1
    /\ currentLetter = "a"
    /\ visitedPrompts = <<>>
    /\ memories = pool
    /\ localPromptNumber = 1
    /\ localPromptLetter = "a"
    /\ memoryDialog = ClosedDialog
    /\ result = NoResult
    /\ requests = [t \in Tabs |-> IdleRequest]
    /\ others = OtherCharacters

(* ---------------- the roll ---------------- *)

\* one pair of dice for every movement from -5 to 9
Dice == { d \in [d10 : 1..10, d6 : 1..6] : d.d6 = 6 \/ d.d10 = 10 }

\* routes.ts 606-622: the row inserted in prompt_history, returned in the
\* answer (routes.ts 708-709)
HistoryEntry(n, l, diceRoll, response) ==
    [promptNumber |-> n, promptLetter |-> l, diceRoll |-> diceRoll,
     response |-> response]

\* Roll that answers 500 when the catalog has no row for the chosen number
Roll_needsContent(diceRoll, response) ==
    LET movement == diceRoll.d10 - diceRoll.d6
        currentPromptValue == OrNum(localPromptNumber, currentPrompt)
        currentLetterValue == OrStr(localPromptLetter, OrStr(currentLetter, "a"))
    IN
    /\ ~memoryDialog.isOpen
    /\ IF \/ Len(prompts) = 0
          \/ \E next \in { NextPosition(currentPromptValue, currentLetterValue,
                                         movement, visitedPrompts, prompts) } :
                \A i \in 1..Len(prompts) :
                    prompts[i].promptNumber # next.nextPrompt
       THEN /\ result' = [status |-> 500]
            /\ UNCHANGED <<others, requests, prompts, currentPrompt, currentLetter, visitedPrompts,
                           memories, localPromptNumber, localPromptLetter,
                           memoryDialog>>
       ELSE \E next \in { NextPosition(currentPromptValue, currentLetterValue,
                                        movement, visitedPrompts, prompts) },
               rec \in { RecordResponse(memories, response) } :
            /\ next.nextPrompt <= MaxPrompt
            /\ CharCode(next.nextLetter) <= MaxCode
            /\ Len(rec.memories) <= MaxPool
            /\ currentPrompt' = next.nextPrompt
            /\ currentLetter' = next.nextLetter
            /\ visitedPrompts' = TrackVisit(visitedPrompts, next.nextPrompt,
                                            next.nextLetter)
            /\ memories' = rec.memories
            /\ localPromptNumber' = next.nextPrompt
            /\ localPromptLetter' = next.nextLetter
            /\ result' = [status |-> 201,
                          entry |-> HistoryEntry(currentPromptValue, currentLetterValue,
                                                diceRoll, response),
                          nextPrompt |-> next.nextPrompt,
                          nextLetter |-> next.nextLetter,
                          previousPrompt |-> currentPromptValue,
                          previousLetter |-> currentLetterValue,
                          movement |-> movement,
                          promptInfo |-> PromptInfo(prompts, next.nextPrompt,
                                                    next.nextLetter),
                          outcome |-> rec.outcome,
                          memoryUpdated |-> rec.memoryUpdated]
            /\ UNCHANGED <<others, requests, prompts, memoryDialog>>

\* Roll that leaves the character row as it is when no memory takes the
\* response
Roll_stopsOnCapacity(diceRoll, response) ==
    LET movement == diceRoll.d10 - diceRoll.d6
        currentPromptValue == OrNum(localPromptNumber, currentPrompt)
        currentLetterValue == OrStr(localPromptLetter, OrStr(currentLetter, "a"))
    IN
    /\ ~memoryDialog.isOpen
    /\ IF Len(prompts) = 0
       THEN /\ result' = [status |-> 500]
            /\ UNCHANGED <<others, requests, prompts, currentPrompt, currentLetter, visitedPrompts,
                           memories, localPromptNumber, localPromptLetter,
                           memoryDialog>>
       ELSE \E next \in { NextPosition(currentPromptValue, currentLetterValue,
                                        movement, visitedPrompts, prompts) },
               rec \in { RecordResponse(memories, response) } :
            /\ next.nextPrompt <= MaxPrompt
            /\ CharCode(next.nextLetter) <= MaxCode
            /\ Len(rec.memories) <= MaxPool
            /\ IF rec.outcome = "CapacityExceeded"
               THEN UNCHANGED <<currentPrompt, currentLetter, visitedPrompts>>
               ELSE /\ currentPrompt' = next.nextPrompt
                    /\ currentLetter' = next.nextLetter
                    /\ visitedPrompts' = TrackVisit(visitedPrompts,
                                                    next.nextPrompt,
                                                    next.nextLetter)
            /\ memories' = rec.memories
            /\ localPromptNumber' = next.nextPrompt
            /\ localPromptLetter' = next.nextLetter
            /\ result' = [status |-> 201,
                          entry |-> HistoryEntry(currentPromptValue, currentLetterValue,
                                                diceRoll, response),
                          nextPrompt |-> next.nextPrompt,
                          nextLetter |-> next.nextLetter,
                          previousPrompt |-> currentPromptValue,
                          previousLetter |-> currentLetterValue,
                          movement |-> movement,
                          promptInfo |-> PromptInfo(prompts, next.nextPrompt,
                                                    next.nextLetter),
                          outcome |-> rec.outcome,
                          memoryUpdated |-> rec.memoryUpdated]
            /\ UNCHANGED <<others, requests, prompts, memoryDialog>>

\* routes.ts 363-725 called by rollDice (prompt-system.tsx 157-308)
Roll(diceRoll, response) ==
    LET movement == diceRoll.d10 - diceRoll.d6
        currentPromptValue == OrNum(localPromptNumber, currentPrompt)
        currentLetterValue == OrStr(localPromptLetter, OrStr(currentLetter, "a"))
    IN
    /\ ~memoryDialog.isOpen
    /\ IF Len(prompts) = 0
       THEN /\ result' = [status |-> 500]
            /\ UNCHANGED <<others, requests, prompts, currentPrompt, currentLetter, visitedPrompts,
                           memories, localPromptNumber, localPromptLetter,
                           memoryDialog>>
       ELSE \E next \in { NextPosition(currentPromptValue, currentLetterValue,
                                        movement, visitedPrompts, prompts) },
               rec \in { RecordResponse(memories, response) } :
            /\ next.nextPrompt <= MaxPrompt
            /\ CharCode(next.nextLetter) <= MaxCode
            /\ Len(rec.memories) <= MaxPool
            /\ currentPrompt' = next.nextPrompt
            /\ currentLetter' = next.nextLetter
            /\ visitedPrompts' = TrackVisit(visitedPrompts, next.nextPrompt,
                                            next.nextLetter)
            /\ memories' = rec.memories
            /\ localPromptNumber' = next.nextPrompt
            /\ localPromptLetter' = next.nextLetter
            /\ result' = [status |-> 201,
                          entry |-> HistoryEntry(currentPromptValue, currentLetterValue,
                                                diceRoll, response),
                          nextPrompt |-> next.nextPrompt,
                          nextLetter |-> next.nextLetter,
                          previousPrompt |-> currentPromptValue,
                          previousLetter |-> currentLetterValue,
                          movement |-> movement,
                          promptInfo |-> PromptInfo(prompts, next.nextPrompt,
                                                    next.nextLetter),
                          outcome |-> rec.outcome,
                          memoryUpdated |-> rec.memoryUpdated]
            /\ UNCHANGED <<others, requests, prompts, memoryDialog>>

RollDice == \E d \in Dice : \E r \in Responses : Roll(d, r)

(* ---------------- the client's memory operations ---------------- *)

\* PATCH /api/character/:id with { memories } (routes.ts 121-174) as sent by
\* handleMemoryUpdate (prompt-system.tsx 610-624) and handleUpdate
\* (pages/character.tsx 74-109)
SaveMemories(pool) ==
    /\ memories' = pool
    /\ UNCHANGED <<others, requests, prompts, currentPrompt, currentLetter, visitedPrompts,
                   localPromptNumber, localPromptLetter, result>>

\* the memories the client acts on
Targets == { i \in 1..Len(memories) : memories[i].id <= MaxTarget }

\* handleCreateMemory without the limit of five memories
handleCreateMemory_noLimit(text) ==
    /\ ~memoryDialog.isOpen
    /\ Len(memories) < MaxPool
    /\ SaveMemories(Append(memories, Memory(FreshId(memories), <<Experience(text)>>)))
    /\ UNCHANGED memoryDialog

\* memory-list.tsx 70-102
handleCreateMemory(text) ==
    /\ ~memoryDialog.isOpen
    /\ ActiveCount(memories) < MaxActiveMemories
    /\ Len(memories) < MaxPool
    /\ SaveMemories(Append(memories, Memory(FreshId(memories), <<Experience(text)>>)))
    /\ UNCHANGED memoryDialog

\* handleStrikeOut that drops the experiences of the memory
handleStrikeOut_forgets(i) ==
    /\ ~memoryDialog.isOpen
    /\ ~memories[i].strikedOut /\ ~memories[i].inDiary
    /\ SaveMemories([memories EXCEPT ![i].strikedOut = TRUE,
                                     ![i].experiences = <<>>])
    /\ UNCHANGED memoryDialog

\* memory-list.tsx 104-122; the button is shown by lines 197-217
handleStrikeOut(i) ==
    /\ ~memoryDialog.isOpen
    /\ ~memories[i].strikedOut /\ ~memories[i].inDiary
    /\ SaveMemories([memories EXCEPT ![i].strikedOut = TRUE])
    /\ UNCHANGED memoryDialog

\* handleMoveToDiary that strikes the memory out as well
handleMoveToDiary_andStrike(i) ==
    /\ ~memoryDialog.isOpen
    /\ ~memories[i].strikedOut /\ ~memories[i].inDiary
    /\ SaveMemories([memories EXCEPT ![i].inDiary = TRUE, ![i].strikedOut = TRUE])
    /\ UNCHANGED memoryDialog

\* prompt-system.tsx 626-652; the button is shown by memory-list.tsx 197-217
handleMoveToDiary(i) ==
    /\ ~memoryDialog.isOpen
    /\ ~memories[i].strikedOut /\ ~memories[i].inDiary
    /\ SaveMemories([memories EXCEPT ![i].inDiary = TRUE])
    /\ UNCHANGED memoryDialog

\* Array.prototype.filter((_, i) => i !== k), k 1-based
RemoveAt(s, k) == [j \in 1..(Len(s) - 1) |-> IF j < k THEN s[j] ELSE s[j + 1]]

\* memory-list.tsx 153-179; the button is shown by lines 235-245
handleDeleteExperience(i, k) ==
    /\ ~memoryDialog.isOpen
    /\ ~memories[i].strikedOut /\ ~memories[i].inDiary
    /\ k <= Len(memories[i].experiences)
    /\ SaveMemories([memories EXCEPT ![i].experiences = RemoveAt(@, k)])
    /\ UNCHANGED memoryDialog

\* openMemoryDialog that keeps the memory selected when the dialog was last open
openMemoryDialog_keepSelection(text) ==
    /\ ~memoryDialog.isOpen
    /\ visitedPrompts # <<>>
    /\ memoryDialog' = [isOpen |-> TRUE, experience |-> text,
                        selectedMemoryId |-> memoryDialog.selectedMemoryId]
    /\ UNCHANGED <<others, requests, prompts, currentPrompt, currentLetter, visitedPrompts, memories,
                   localPromptNumber, localPromptLetter, result>>

\* prompt-system.tsx 465-472: "Save to Memory" on a recorded response
openMemoryDialog(text) ==
    /\ ~memoryDialog.isOpen
    /\ visitedPrompts # <<>>
    /\ memoryDialog' = [isOpen |-> TRUE, experience |-> text, selectedMemoryId |-> 0]
    /\ UNCHANGED <<others, requests, prompts, currentPrompt, currentLetter, visitedPrompts, memories,
                   localPromptNumber, localPromptLetter, result>>

\* prompt-system.tsx 502-526: the radio group lists the open memories
selectMemory(i) ==
    /\ memoryDialog.isOpen
    /\ IsOpen(memories[i])
    /\ memoryDialog' = [memoryDialog EXCEPT !.selectedMemoryId = memories[i].id]
    /\ UNCHANGED <<others, requests, prompts, currentPrompt, currentLetter, visitedPrompts, memories,
                   localPromptNumber, localPromptLetter, result>>

\* prompt-system.tsx 538-544
cancelMemoryDialog ==
    /\ memoryDialog.isOpen
    /\ memoryDialog' = ClosedDialog
    /\ UNCHANGED <<others, requests, prompts, currentPrompt, currentLetter, visitedPrompts, memories,
                   localPromptNumber, localPromptLetter, result>>

\* prompt-system.tsx 486-493: the dialog is closed with Escape or a click
\* outside it; the experience and the selection stay in the component state
dismissMemoryDialog ==
    /\ memoryDialog.isOpen
    /\ memoryDialog' = [memoryDialog EXCEPT !.isOpen = FALSE]
    /\ UNCHANGED <<others, requests, prompts, currentPrompt, currentLetter, visitedPrompts, memories,
                   localPromptNumber, localPromptLetter, result>>

\* prompt-system.tsx 321-391
addExperienceToMemory ==
    LET memoryIndex == FindIndex([i \in 1..Len(memories) |->
                      memories[i].id = memoryDialog.selectedMemoryId])
    IN
    /\ memoryDialog.isOpen
    /\ memoryDialog.experience # NULL /\ memoryDialog.selectedMemoryId # 0
    /\ memoryIndex # 0
    /\ ~(Len(memories[memoryIndex].experiences) >= MaxExperiences)
    /\ SaveMemories([memories EXCEPT ![memoryIndex].experiences =
                        Append(@, Experience(memoryDialog.experience))])
    /\ memoryDialog' = ClosedDialog

(* ---------------- specifications ---------------- *)

\* navigation: every catalog, every movement, a pool the rolls leave alone
InitNav == \E rows \in Catalogs : CreateCharacter(rows, FullPool)

NextNav == RollDice

SpecNav == InitNav /\ [][NextNav]_vars

\* the dice of the memory specification: one step back
MemDice == { [d10 |-> 5, d6 |-> 6] }

MemCatalog ==
    << Row(1,"a"), Row(1,"b"), Row(1,"c"), Row(2,"a"), Row(2,"b"), Row(2,"c") >>

RollMem == \E d \in MemDice : \E r \in Responses : Roll(d, r)

CreateMemory == \E r \in Responses : handleCreateMemory(r)

StrikeOut == \E i \in Targets : handleStrikeOut(i)

MoveToDiary == \E i \in Targets : handleMoveToDiary(i)

DeleteExperience ==
    \E i \in Targets : \E k \in 1..MaxExperiences : handleDeleteExperience(i, k)

OpenMemoryDialog == \E r \in Responses : openMemoryDialog(r)

SelectMemory == \E i \in Targets : selectMemory(i)

\* memory allocation: the rolls and the client's memory operations
InitMem ==
    \E pool \in { <<>>, <<Memory(1, <<Experience("r")>>)>> } :
        CreateCharacter(MemCatalog, pool)

NextMem ==
    \/ RollMem
    \/ CreateMemory
    \/ StrikeOut
    \/ MoveToDiary
    \/ DeleteExperience
    \/ OpenMemoryDialog
    \/ SelectMemory
    \/ cancelMemoryDialog
    \/ addExperienceToMemory

SpecMem == InitMem /\ [][NextMem]_vars

\* the dice of the recording specification: no move, one step back, one forward
RecordDice == { [d10 |-> 5, d6 |-> 5], [d10 |-> 5, d6 |-> 6], [d10 |-> 6, d6 |-> 5] }

RollRecord == \E d \in RecordDice : \E r \in Responses : Roll(d, r)

\* recording from an empty pool: rolls and nothing else
InitRecord == CreateCharacter(MemCatalog, <<>>)

NextRecord == RollRecord

SpecRecord == InitRecord /\ [][NextRecord]_vars

(* ---------------- properties of the navigation ---------------- *)

\* the visit record as a set of (number, letter) pairs
VisitedSet(visited) ==
    UNION { { <<visited[i].promptNumber, visited[i].letters[j]>> :
                j \in 1..Len(visited[i].letters) } : i \in 1..Len(visited) }

\* the lowest of a, b, c that the set does not hold for the number; "none"
\* when it holds all three
LowestUnvisited(S, n) ==
    IF <<n, "a">> \notin S THEN "a"
    ELSE IF <<n, "b">> \notin S THEN "b"
    ELSE IF <<n, "c">> \notin S THEN "c"
    ELSE "none"

\* the step is a roll the handler has answered with 201
RolledStep == result'.status = 201 /\ vars' # vars

\* the position the roll of this step started from and the one it chose
PrevPos == <<result'.previousPrompt, result'.previousLetter>>

NextPos == <<result'.nextPrompt, result'.nextLetter>>

\* the roll of this step has equal dice and started at letter a or b
ZeroAtAB ==
    RolledStep /\ result'.movement = 0 /\ result'.previousLetter \in {"a", "b"}

\* the roll moved to the same number with the following letter
SameNumberNextLetter ==
    /\ PrevPos = <<currentPrompt, currentLetter>>
    /\ result'.nextPrompt = result'.previousPrompt
    /\ result'.nextLetter = (IF result'.previousLetter = "a" THEN "b" ELSE "c")
    /\ <<currentPrompt', currentLetter'>> = NextPos

C2_RedirectForward ==
    [][(RolledStep /\ result'.movement = 0 /\ result'.previousLetter = "c") =>
          /\ result'.nextPrompt > result'.previousPrompt
          /\ result'.nextLetter =
                LowestUnvisited(VisitedSet(visitedPrompts), result'.nextPrompt)
       ]_vars

\* C3: on unequal dice the returned number is the current number plus the
\* movement, or 1 when that sum is below 1
C3_NumberIsFlooredSum ==
    (result.status = 201 /\ result.movement # 0) =>
        /\ result.nextPrompt >= 1
        /\ currentPrompt = result.nextPrompt
        /\ IF result.previousPrompt + result.movement >= 1
           THEN result.nextPrompt = result.previousPrompt + result.movement
           ELSE result.nextPrompt = 1

\* a roll back from (1, c) with all of 1a, 1b, 1c visited has stayed at (1, c)
C3_Witness ==
    /\ result.status = 201 /\ result.movement < 0
    /\ result.previousPrompt + result.movement < 1
    /\ result.previousPrompt = 1 /\ result.previousLetter = "c"
    /\ result.nextPrompt = 1 /\ result.nextLetter = "c"
    /\ {<<1, "a">>, <<1, "b">>, <<1, "c">>} \subseteq VisitedSet(visitedPrompts)

\* C4: on unequal dice the returned letter is the lowest of a, b, c that the
\* record before the roll does not hold for the target number, and c when it
\* holds all three
C4_LetterOfTarget ==
    [][(RolledStep /\ result'.movement # 0) =>
          LET S == VisitedSet(visitedPrompts)
              low == LowestUnvisited(S, result'.nextPrompt)
          IN /\ (<<result'.nextPrompt, "a">> \notin S => result'.nextLetter = "a")
             /\ result'.nextLetter = (IF low = "none" THEN "c" ELSE low)
       ]_vars

\* a roll with unequal dice has reached a number whose letter a was visited
C4_Witness ==
    /\ result.status = 201 /\ result.movement # 0
    /\ result.nextLetter \in {"b", "c"}
    /\ <<result.nextPrompt, "a">> \in VisitedSet(visitedPrompts)

\* C5 as stated: every roll adds to the visit record a pair it did not hold
C5_StrictGrowth ==
    [][RolledStep =>
          /\ VisitedSet(visitedPrompts) \subseteq VisitedSet(visitedPrompts')
          /\ VisitedSet(visitedPrompts) # VisitedSet(visitedPrompts')
       ]_vars

\* C5 amended: every roll leaves the visit record a superset of the record
\* before it, with at most the chosen position added; the superset is strict
\* exactly when the chosen position was not visited before
C5_Growth ==
    [][RolledStep =>
          \E before \in {VisitedSet(visitedPrompts)},
             after \in {VisitedSet(visitedPrompts')} :
             /\ before \subseteq after
             /\ after \ before \subseteq {NextPos}
             /\ NextPos \in after
             /\ (before # after <=> NextPos \notin before)
       ]_vars

\* a roll with unequal dice has chosen (n, c) at a number visited in full,
\* coming from another number
C5_Witness ==
    /\ result.status = 201 /\ result.movement # 0
    /\ result.nextLetter = "c"
    /\ result.previousPrompt # result.nextPrompt
    /\ \E i \in 1..Len(visitedPrompts) :
          /\ visitedPrompts[i].promptNumber = result.nextPrompt
          /\ Len(visitedPrompts[i].letters) >= 3
          /\ visitedPrompts[i].letters[Len(visitedPrompts[i].letters)] # "c"

\* at most one entry for a prompt number
OneEntryPerNumber(visited) ==
    \A i, j \in 1..Len(visited) :
        visited[i].promptNumber = visited[j].promptNumber => i = j

\* no letter twice in an entry
NoLetterTwice(visited) ==
    \A i \in 1..Len(visited) :
        \A j, k \in 1..Len(visited[i].letters) :
            visited[i].letters[j] = visited[i].letters[k] => j = k

\* C6: the visit record only grows, has one entry for a number and no letter
\* twice in an entry, and recording the chosen position again leaves it as it is
C6_RecordIsASet ==
    /\ [](/\ OneEntryPerNumber(visitedPrompts)
          /\ NoLetterTwice(visitedPrompts)
          /\ (result.status = 201 =>
                TrackVisit(visitedPrompts, result.nextPrompt, result.nextLetter)
                    = visitedPrompts))
    /\ [][VisitedSet(visitedPrompts) \subseteq VisitedSet(visitedPrompts')]_vars

\* a roll has chosen a position the record held already, in an entry of
\* several letters beside another entry
C6_Witness ==
    /\ result.status = 201
    /\ Len(visitedPrompts) >= 2
    /\ \E i \in 1..Len(visitedPrompts) :
          /\ visitedPrompts[i].promptNumber = result.nextPrompt
          /\ Len(visitedPrompts[i].letters) >= 2
          /\ visitedPrompts[i].letters[Len(visitedPrompts[i].letters)]
                # result.nextLetter

(* ---------------- properties of the memory pool ---------------- *)

\* no memory of the pool is open
NoneOpen(pool) == \A i \in 1..Len(pool) : ~IsOpen(pool[i])

\* five memories are not struck out and none is open
PoolExhausted(pool) == ActiveCount(pool) = 5 /\ NoneOpen(pool)

\* the step is a roll that the state shows
RollShown ==
    \/ result' # result
    \/ visitedPrompts' # visitedPrompts
    \/ <<currentPrompt', currentLetter'>> # <<currentPrompt, currentLetter>>

RECURSIVE TotalExperiences(_)
\* the number of experiences of the pool
TotalExperiences(pool) ==
    IF pool = <<>> THEN 0
    ELSE Len(Head(pool).experiences) + TotalExperiences(Tail(pool))

\* C7: no memory holds more than 3 experiences
C7_AtMostThreeExperiences ==
    \A i \in 1..Len(memories) : Len(memories[i].experiences) <= 3

\* a roll has appended the third experience of a memory, and another memory,
\* struck out or in the diary, holds fewer
C7_Witness ==
    /\ result.status = 201 /\ result.outcome = "Appended"
    /\ \E i, j \in 1..Len(memories) :
          /\ Len(memories[i].experiences) = 3 /\ IsOpen(memories[j])
          /\ i < j
    /\ \E i \in 1..Len(memories) :
          /\ memories[i].strikedOut \/ memories[i].inDiary
          /\ Len(memories[i].experiences) < 3

\* C8: at most 5 memories are not struck out, those in the diary included
C8_AtMostFiveActive ==
    Cardinality({ i \in 1..Len(memories) : memories[i].strikedOut = FALSE }) <= 5

\* five memories are not struck out, one of them in the diary, after another
\* one was struck out
C8_Witness ==
    /\ Cardinality({ i \in 1..Len(memories) : ~memories[i].strikedOut }) = 5
    /\ \E i \in 1..Len(memories) : memories[i].inDiary /\ ~memories[i].strikedOut
    /\ \E i \in 1..Len(memories) : memories[i].strikedOut
    /\ Len(memories) > 5

\* C9: with 5 memories not struck out and none open, recording a response
\* returns CapacityExceeded and leaves the pool as it is, and so does
\* recording it once more
C9_CapacityExceededKeepsPool ==
    /\ [](PoolExhausted(memories) =>
            \A r \in Responses :
                LET once == RecordResponse(memories, r)
                    twice == RecordResponse(once.memories, r)
                IN /\ once.outcome = "CapacityExceeded"
                   /\ once.memories = memories
                   /\ twice = once)
    /\ [][(PoolExhausted(memories) /\ RollShown) =>
            /\ result'.status = 201
            /\ result'.outcome = "CapacityExceeded"
            /\ result'.memoryUpdated = FALSE
            /\ memories' = memories
         ]_vars

\* a roll was answered CapacityExceeded with a memory in the diary and one
\* struck out in the pool
C9_Witness ==
    /\ result.status = 201 /\ result.outcome = "CapacityExceeded"
    /\ PoolExhausted(memories)
    /\ \E i \in 1..Len(memories) : memories[i].inDiary /\ ~memories[i].strikedOut
    /\ \E i \in 1..Len(memories) : memories[i].strikedOut

\* C10: from an empty pool and with rolls only, after k recorded responses
\* (k <= 15) the pool holds ceil(k/3) memories, each but the last of 3
\* experiences; the calls 1, 4, 7, 10, 13 are answered Created and the others
\* Appended; a call on the pool of 15 is answered CapacityExceeded
C10_FilledInOrder ==
    /\ [](LET k == TotalExperiences(memories) IN
          /\ k <= 15
          /\ Len(memories) = (k + 2) \div 3
          /\ \A i \in 1..(Len(memories) - 1) : Len(memories[i].experiences) = 3
          /\ \A i \in 1..Len(memories) :
                ~memories[i].strikedOut /\ ~memories[i].inDiary
          /\ (result.status = 201 /\ result.outcome # "CapacityExceeded") =>
                result.outcome = (IF k % 3 = 1 THEN "Created" ELSE "Appended")
          /\ (result.status = 201 /\ result.outcome = "CapacityExceeded") => k = 15
          /\ result.status = 201 => k >= 1)
    /\ [][RollShown =>
            /\ result'.status = 201
            /\ TotalExperiences(memories) < 15 =>
                  /\ TotalExperiences(memories') = TotalExperiences(memories) + 1
                  /\ result'.outcome # "CapacityExceeded"
            /\ TotalExperiences(memories) = 15 =>
                  /\ result'.outcome = "CapacityExceeded"
                  /\ memories' = memories
         ]_vars

\* the call on the pool of five memories of three experiences was answered
\* CapacityExceeded
C10_Witness ==
    /\ result.status = 201 /\ result.outcome = "CapacityExceeded"
    /\ Len(memories) = 5
    /\ TotalExperiences(memories) = 15

(* ---------------- the alphabet ---------------- *)

\* the letters of a position
Letters == {"a", "b", "c"}

\* C11: the current letter is one of a, b, c and so is every letter of the
\* visit record, whatever rolls were made from (1, a) and whether or not the
\* current number is a number of the catalog
C11_LettersInABC ==
    /\ currentLetter \in Letters
    /\ \A i \in 1..Len(visitedPrompts) :
          \A j \in 1..Len(visitedPrompts[i].letters) :
              visitedPrompts[i].letters[j] \in Letters

(* ---------------- the order of the catalog rows ---------------- *)

\* the rows in every order
RowOrders(rows) ==
    { [i \in 1..Len(rows) |-> rows[p[i]]] : p \in Permutations(1..Len(rows)) }

\* catalogs ordered by number only (routes.ts 414), letters in any order
OrderCatalogs ==
    { << Row(1,"a"), Row(2,"a"), Row(3,"a") >>,
      << Row(1,"c"), Row(1,"a"), Row(3,"b"), Row(3,"a") >> }

\* the dice of the catalog specification: movements -2 to 2
OrderDice == { d \in [d10 : 4..8, d6 : {6}] : TRUE }

RollOrder == \E d \in OrderDice : \E r \in Responses : Roll(d, r)

InitOrder == \E rows \in OrderCatalogs : CreateCharacter(rows, FullPool)

NextOrder == RollOrder

SpecOrder == InitOrder /\ [][NextOrder]_vars

\* C12: the position a roll chooses and the visit record it stores are those
\* computed from the position, the dice, the visit record and the catalog
\* alone, in whatever order the rows of the catalog are read
C12_SameOutputs ==
    [][RolledStep =>
          \A rows \in RowOrders(prompts) :
             \E n \in { NextPosition(result'.previousPrompt,
                                     result'.previousLetter, result'.movement,
                                     visitedPrompts, rows) } :
                /\ <<n.nextPrompt, n.nextLetter>> = NextPos
                /\ <<currentPrompt', currentLetter'>> = NextPos
                /\ TrackVisit(visitedPrompts, n.nextPrompt, n.nextLetter)
                      = visitedPrompts'
       ]_vars

\* a roll with equal dice at (1, c) was redirected to 2, in a catalog of the
\* numbers 1, 2 and 3
C12_Witness ==
    /\ result.status = 201 /\ result.movement = 0
    /\ result.previousPrompt = 1 /\ result.previousLetter = "c"
    /\ result.nextPrompt = 2
    /\ Len(SortedPromptNumbers(prompts)) = 3

(* ---------------- missing prompt content ---------------- *)

\* the handler has answered a roll
Answered == result # NoResult

\* the answer is 201 and the position it names is the stored position and is
\* in the stored visit record
AdvancedAndStored ==
    /\ result.status = 201
    /\ <<currentPrompt, currentLetter>> = <<result.nextPrompt, result.nextLetter>>
    /\ <<result.nextPrompt, result.nextLetter>> \in VisitedSet(visitedPrompts)

\* C13 as stated: for every catalog, the empty one included, every roll is
\* answered with a next position, which is stored
C13_NeverFails == Answered => AdvancedAndStored

\* C13 amended: for every catalog that is not empty, also one with no prompt
\* at the chosen number, every roll is answered with a next position, which
\* is stored; with an empty catalog the roll is answered 500 and the position
\* and the visit record stay as they were
C13_FailsOnlyOnEmptyCatalog ==
    Answered =>
        IF Len(prompts) = 0
        THEN /\ result.status = 500
             /\ <<currentPrompt, currentLetter>> = <<1, "a">>
             /\ visitedPrompts = <<>>
        ELSE AdvancedAndStored

\* a roll has chosen a number of which the catalog has no row and was
\* answered with a placeholder
C13_Witness ==
    /\ AdvancedAndStored
    /\ \A i \in 1..Len(prompts) : prompts[i].promptNumber # result.nextPrompt
    /\ result.promptInfo.content = "placeholder"

(* ---------------- recovery from CapacityExceeded ---------------- *)

StrikeOutAny == \E i \in 1..Len(memories) : handleStrikeOut(i)

MoveToDiaryAny == \E i \in 1..Len(memories) : handleMoveToDiary(i)

\* a full pool, rolls, and archiving and striking out of any memory
InitRecover == CreateCharacter(MemCatalog, FullPool)

NextRecover ==
    \/ RollMem
    \/ StrikeOutAny
    \/ MoveToDiaryAny

SpecRecover == InitRecover /\ [][NextRecover]_vars

\* memory-list.tsx 197-217: the card of the memory shows the diary and the
\* strike-out buttons
Offered(pool, i) == ~pool[i].strikedOut /\ ~pool[i].inDiary

\* recording the response in the pool is answered CapacityExceeded
Blocked(pool, r) == RecordResponse(pool, r).outcome = "CapacityExceeded"

\* C14: whenever recording a response is answered CapacityExceeded, the
\* client offers to archive or to strike out a memory, and after that
\* operation recording the same response is answered Appended or Created
C14_Recoverable ==
    \A r \in Responses :
        Blocked(memories, r) =>
            \E i \in 1..Len(memories) :
                /\ Offered(memories, i)
                /\ \/ ~Blocked([memories EXCEPT ![i].inDiary = TRUE], r)
                   \/ ~Blocked([memories EXCEPT ![i].strikedOut = TRUE], r)

(* ---------------- two roll requests in flight ---------------- *)

\* the dice of the race specification: movements -1 to 2
RaceDice == { d \in [d10 : 5..8, d6 : {6}] : TRUE }

\* routes.ts 363-389: the request of tab t arrives and the handler reads the
\* character row
ReadCharacter(t, diceRoll, response) ==
    /\ requests[t].pc = "idle"
    /\ requests' = [requests EXCEPT ![t] =
          [@ EXCEPT !.pc = "read", !.diceRoll = diceRoll, !.response = response,
                    !.character = [currentPrompt |-> currentPrompt,
                                   currentLetter |-> currentLetter,
                                   visitedPrompts |-> visitedPrompts,
                                   memories |-> memories]]]
    /\ UNCHANGED <<others, prompts, currentPrompt, currentLetter, visitedPrompts,
                   memories, localPromptNumber, localPromptLetter, memoryDialog,
                   result>>

\* routes.ts 398-720: the handler computes from the row it has read, writes
\* the row and answers; the tab moves to the position of the answer
\* (prompt-system.tsx 213-216)
WriteCharacter(t) ==
    LET q == requests[t]
        character == q.character
        movement == q.diceRoll.d10 - q.diceRoll.d6
        currentPromptValue == OrNum(q.promptNumber, character.currentPrompt)
        currentLetterValue ==
            OrStr(q.promptLetter, OrStr(character.currentLetter, "a"))
    IN
    /\ q.pc = "read"
    /\ IF Len(prompts) = 0
       THEN /\ requests' = [requests EXCEPT ![t] =
                  [@ EXCEPT !.pc = "done", !.answer = [status |-> 500]]]
            /\ UNCHANGED <<currentPrompt, currentLetter, visitedPrompts, memories>>
       ELSE \E next \in { NextPosition(currentPromptValue, currentLetterValue,
                                        movement, character.visitedPrompts,
                                        prompts) },
               rec \in { RecordResponse(character.memories, q.response) } :
            /\ next.nextPrompt <= MaxPrompt
            /\ CharCode(next.nextLetter) <= MaxCode
            /\ Len(rec.memories) <= MaxPool
            /\ currentPrompt' = next.nextPrompt
            /\ currentLetter' = next.nextLetter
            /\ visitedPrompts' = TrackVisit(character.visitedPrompts,
                                            next.nextPrompt, next.nextLetter)
            /\ memories' = IF rec.memoryUpdated THEN rec.memories ELSE memories
            /\ requests' = [requests EXCEPT ![t] =
                  [@ EXCEPT !.pc = "done",
                            !.promptNumber = next.nextPrompt,
                            !.promptLetter = next.nextLetter,
                            !.answer = [status |-> 201,
                                        nextPrompt |-> next.nextPrompt,
                                        nextLetter |-> next.nextLetter,
                                        previousPrompt |-> currentPromptValue,
                                        previousLetter |-> currentLetterValue,
                                        movement |-> movement,
                                        outcome |-> rec.outcome,
                                        memoryUpdated |-> rec.memoryUpdated]]]
    /\ UNCHANGED <<others, prompts, localPromptNumber, localPromptLetter, memoryDialog,
                   result>>

SubmitRoll ==
    \E t \in Tabs : \E d \in RaceDice : \E r \in Responses : ReadCharacter(t, d, r)

CompleteRoll == \E t \in Tabs : WriteCharacter(t)

\* a new character with no memory and a roll from each of the two tabs
InitRace == CreateCharacter(MemCatalog, <<>>)

NextRace ==
    \/ SubmitRoll
    \/ CompleteRoll

SpecRace == InitRace /\ [][NextRace]_vars

\* both requests are answered
BothDone == \A t \in Tabs : requests[t].pc = "done"

\* C15: when the two roll requests are answered, in whatever order their
\* steps ran, the visit record holds the position each of them chose and the
\* pool holds the experience of each
C15_NothingDropped ==
    BothDone =>
        /\ \A t \in Tabs :
              <<requests[t].answer.nextPrompt, requests[t].answer.nextLetter>>
                  \in VisitedSet(visitedPrompts)
        /\ TotalExperiences(memories) = Cardinality(Tabs)

(* ---------------- retired memories ---------------- *)

\* the memory operations of the client, the dialog dismissed without Cancel
\* included
InitRetire == InitMem

NextRetire ==
    \/ NextMem
    \/ dismissMemoryDialog

SpecRetire == InitRetire /\ [][NextRetire]_vars

CorruptState ==
    \/ \E i \in 1..Len(visitedPrompts) :
          \E j \in 1..Len(visitedPrompts[i].letters) :
              visitedPrompts[i].letters[j] \notin Letters
    \/ ActiveCount(memories) > MaxActiveMemories

\* C17: a roll on a corrupt stored state is answered with an outcome of its
\* own, neither the 201 of a roll nor the 500 of an empty catalog, and leaves
\* the stored position, visit record and pool as they are
C17_CorruptStateRejected ==
    [][(CorruptState /\ vars' # vars) =>
          /\ result'.status \notin {201, 500}
          /\ UNCHANGED <<currentPrompt, currentLetter, visitedPrompts, memories>>
      ]_vars

(* ---------------- the redirect ---------------- *)

\* the numbers of the catalog greater than n that the record has not visited
\* in full
OpenNumbersAbove(n) ==
    { prompts[i].promptNumber : i \in 1..Len(prompts) } \cap
    { m \in (n + 1)..(MaxPrompt + 1) :
          LowestUnvisited(VisitedSet(visitedPrompts), m) # "none" }

\* the roll of this step has equal dice and started at letter c
ZeroAtC ==
    RolledStep /\ result'.movement = 0 /\ result'.previousLetter = "c"

\* C18: on equal dice at letter c, when the catalog has a number greater than
\* the current one that is not visited in full, the roll chooses the smallest
\* such number, with the lowest letter not visited for it
C18_SmallestOpenNumber ==
    [][(ZeroAtC /\ OpenNumbersAbove(result'.previousPrompt) # {}) =>
          /\ result'.nextPrompt \in OpenNumbersAbove(result'.previousPrompt)
          /\ \A m \in OpenNumbersAbove(result'.previousPrompt) :
                result'.nextPrompt <= m
          /\ result'.nextLetter =
                LowestUnvisited(VisitedSet(visitedPrompts), result'.nextPrompt)
      ]_vars

\* the number is a number of the catalog
InCatalog(n) == \E i \in 1..Len(prompts) : prompts[i].promptNumber = n

\* C19: on equal dice at letter c of a number of the catalog, when every
\* number of the catalog greater than the current one is visited in full, the
\* roll chooses the highest number of the catalog plus one with letter a, and
\* the record before the roll has no entry for that number
C19_FallbackIsFresh ==
    [][(/\ ZeroAtC
        /\ InCatalog(result'.previousPrompt)
        /\ OpenNumbersAbove(result'.previousPrompt) = {}) =>
          /\ result'.nextPrompt =
                SortedPromptNumbers(prompts)[Len(SortedPromptNumbers(prompts))] + 1
          /\ result'.nextLetter = "a"
          /\ VisitedIndex(visitedPrompts, result'.nextPrompt) = 0
      ]_vars

(* ---------------- the catalog and the chosen position ---------------- *)

\* catalogs to compare the catalog of the character with
AltCatalogs ==
    Catalogs \cup OrderCatalogs \cup { << Row(1,"b"), Row(2,"c"), Row(3,"c") >> }

\* the prompt numbers of the rows
PromptNumbers(rows) == { rows[i].promptNumber : i \in 1..Len(rows) }

\* the handler would choose the position of this step with these rows too
SameChoiceWith(rows) ==
    NextPosition(result'.previousPrompt, result'.previousLetter,
                 result'.movement, visitedPrompts, rows)
        = [nextPrompt |-> result'.nextPrompt, nextLetter |-> result'.nextLetter]

\* C20 as stated: the position a roll chooses is the position it would choose
\* with any other catalog
C20_AnyCatalog ==
    [][RolledStep =>
          \A rows \in AltCatalogs \ {<<>>} : SameChoiceWith(rows)
      ]_vars

\* C20 amended: the position a roll chooses is the position it would choose
\* with any other catalog of the same prompt numbers, whatever letters have
\* content; unless the roll has equal dice at letter c, it is the position it
\* would choose with any catalog that is not empty
C20_SameNumbers ==
    [][RolledStep =>
          \A rows \in AltCatalogs \ {<<>>} :
             (\/ PromptNumbers(rows) = PromptNumbers(prompts)
              \/ ~(result'.movement = 0 /\ result'.previousLetter = "c"))
                => SameChoiceWith(rows)
      ]_vars

\* a roll with equal dice at letter c was redirected, with a catalog whose
\* numbers another catalog has with other letters
C20_Witness ==
    /\ result.status = 201 /\ result.movement = 0
    /\ result.previousLetter = "c"
    /\ result.nextPrompt > result.previousPrompt
    /\ \E rows \in AltCatalogs :
          /\ PromptNumbers(rows) = PromptNumbers(prompts)
          /\ \E i \in 1..Len(rows) :
                /\ rows[i].promptNumber = result.nextPrompt
                /\ \A k \in 1..Len(prompts) : prompts[k] # rows[i]

(* ---------------- the content of the chosen position ---------------- *)

\* the catalog has no row for the position the roll chose but has a row of
\* another letter for its number
OtherLetterOnly ==
    /\ result.status = 201
    /\ \A i \in 1..Len(prompts) :
          prompts[i] # Row(result.nextPrompt, result.nextLetter)
    /\ \E i \in 1..Len(prompts) : prompts[i].promptNumber = result.nextPrompt

\* C21: when the catalog has no prompt at the chosen number and letter but
\* has one of another letter for that number, the answer names the chosen
\* number and letter, also in its prompt data, and its content is a
\* placeholder, not the content of the other letter
C21_PlaceholderForMissingLetter ==
    OtherLetterOnly =>
        /\ <<currentPrompt, currentLetter>> = <<result.nextPrompt, result.nextLetter>>
        /\ result.promptInfo.promptNumber = result.nextPrompt
        /\ result.promptInfo.promptLetter = result.nextLetter
        /\ result.promptInfo.content = "placeholder"

(* ---------------- the effect of recording on the pool ---------------- *)

\* the memory is not in a diary, not struck out and has fewer than 3
\* experiences
OpenMemory(m) == ~m.inDiary /\ ~m.strikedOut /\ Len(m.experiences) < 3

HasOpen(pool) == \E i \in 1..Len(pool) : OpenMemory(pool[i])

\* the first open memory in the order of the pool
FirstOpen(pool) ==
    CHOOSE i \in 1..Len(pool) :
        OpenMemory(pool[i]) /\ \A j \in 1..(i - 1) : ~OpenMemory(pool[j])

\* the second pool is the first one with the text as one more experience at
\* the end of memory k and nothing else changed
AppendedAt(before, after, k, text) ==
    /\ Len(after) = Len(before)
    /\ after[k] = [before[k] EXCEPT !.experiences = Append(@, Experience(text))]
    /\ \A i \in 1..Len(before) : i # k => after[i] = before[i]

\* C22: with an open memory in the pool, recording a response is answered
\* Appended and adds the response as one experience at the end of the first
\* open memory in pool order and changes no other memory; a memory in a diary
\* or struck out is not the target, wherever it is and however few
\* experiences it has
C22_AppendsToFirstOpen ==
    /\ [](HasOpen(memories) =>
            \A r \in Responses :
                /\ RecordResponse(memories, r).outcome = "Appended"
                /\ AppendedAt(memories, RecordResponse(memories, r).memories,
                              FirstOpen(memories), r))
    /\ [][(RollShown /\ HasOpen(memories)) =>
            /\ result'.status = 201 /\ result'.outcome = "Appended"
            /\ \E r \in Responses :
                  AppendedAt(memories, memories', FirstOpen(memories), r)
         ]_vars

\* a roll has appended to a memory that comes after a memory in a diary and
\* a struck out memory with room left
C22_Witness ==
    /\ result.status = 201 /\ result.outcome = "Appended"
    /\ \E i, j, k \in 1..Len(memories) :
          /\ i < k /\ j < k
          /\ memories[i].inDiary /\ ~memories[i].strikedOut
          /\ Len(memories[i].experiences) < 3
          /\ memories[j].strikedOut /\ Len(memories[j].experiences) < 3
          /\ ~memories[k].inDiary /\ ~memories[k].strikedOut
          /\ Len(memories[k].experiences) >= 2
          /\ \A m \in 1..(k - 1) : ~OpenMemory(memories[m])

\* no memory of the pool is open and fewer than 5 are not struck out
RoomForNew(pool) ==
    /\ ~HasOpen(pool)
    /\ Cardinality({ i \in 1..Len(pool) : ~pool[i].strikedOut }) < 5

\* the second pool is the first one followed by one new memory, which has
\* the text as its only experience, is in no diary and not struck out, and
\* has an id no other memory has
CreatedAfter(before, after, text) ==
    /\ Len(after) = Len(before) + 1
    /\ \A i \in 1..Len(before) : after[i] = before[i]
    /\ after[Len(after)].experiences = <<Experience(text)>>
    /\ ~after[Len(after)].inDiary /\ ~after[Len(after)].strikedOut
    /\ \A i \in 1..Len(before) : before[i].id # after[Len(after)].id

\* C23: with no open memory and fewer than 5 memories not struck out,
\* recording a response is answered Created and adds at the end of the pool
\* one new memory with the response as its only experience, in no diary and
\* not struck out, and leaves every memory of the pool as it is
C23_CreatesAtEnd ==
    /\ [](RoomForNew(memories) =>
            \A r \in Responses :
                /\ RecordResponse(memories, r).outcome = "Created"
                /\ CreatedAfter(memories, RecordResponse(memories, r).memories, r))
    /\ [][(RollShown /\ RoomForNew(memories)) =>
            /\ result'.status = 201 /\ result'.outcome = "Created"
            /\ \E r \in Responses : CreatedAfter(memories, memories', r)
         ]_vars

\* a roll has created a memory after a full one, one in a diary and a struck
\* out one
C23_Witness ==
    /\ result.status = 201 /\ result.outcome = "Created"
    /\ Len(memories[Len(memories)].experiences) = 1
    /\ \E i, j, k \in 1..(Len(memories) - 1) :
          /\ memories[i].inDiary /\ ~memories[i].strikedOut
          /\ memories[j].strikedOut
          /\ Len(memories[k].experiences) = 3 /\ ~memories[k].strikedOut

(* ---------------- archiving and striking out ---------------- *)

\* the number of memories that are not struck out
NonRetired(pool) == Cardinality({ i \in 1..Len(pool) : ~pool[i].strikedOut })

\* the step puts memory i in a diary
Archives(i) ==
    /\ ~memories[i].inDiary
    /\ i <= Len(memories') /\ memories'[i].inDiary

\* C24: putting a memory in a diary sets its diary flag and nothing else in
\* the pool, so the number of memories not struck out stays; with 5 of them
\* and none open, recording a response is answered CapacityExceeded, before
\* and after, however many of the 5 are in a diary
C24_ArchiveKeepsCount ==
    /\ []((NonRetired(memories) = 5 /\ ~HasOpen(memories)) =>
            \A r \in Responses :
                RecordResponse(memories, r).outcome = "CapacityExceeded")
    /\ [][\A i \in 1..Len(memories) :
            Archives(i) =>
                /\ memories' = [memories EXCEPT ![i].inDiary = TRUE]
                /\ NonRetired(memories') = NonRetired(memories)
                /\ (NonRetired(memories) = 5 /\ ~HasOpen(memories)) =>
                      \A r \in Responses :
                          RecordResponse(memories', r).outcome = "CapacityExceeded"
         ]_vars

\* a roll was answered CapacityExceeded and all 5 memories that are not
\* struck out are in a diary, beside a struck out one
C24_Witness ==
    /\ result.status = 201 /\ result.outcome = "CapacityExceeded"
    /\ NonRetired(memories) = 5
    /\ \A i \in 1..Len(memories) : memories[i].inDiary \/ memories[i].strikedOut
    /\ \E i \in 1..Len(memories) : memories[i].strikedOut

\* the step strikes memory i out
Retires(i) ==
    /\ ~memories[i].strikedOut
    /\ i <= Len(memories') /\ memories'[i].strikedOut

OwnedBy(user, characterId) ==
    \/ characterId = 1 /\ user = 1
    \/ characterId \in DOMAIN others /\ others[characterId].userId = user

\* routes.ts 391-720 for the row the handler has found: the client of the
\* owner sends the position it shows, which is the stored one
\* (prompt-system.tsx 180-187, 213-238), and the update is by the id of the
\* row (routes.ts 698-702)
UpdateCharacter(characterId, diceRoll, response) ==
    IF characterId = 1
    THEN Roll(diceRoll, response)
    ELSE LET character == others[characterId]
             movement == diceRoll.d10 - diceRoll.d6
             currentPromptValue ==
                 OrNum(character.currentPrompt, character.currentPrompt)
             currentLetterValue ==
                 OrStr(character.currentLetter, OrStr(character.currentLetter, "a"))
         IN
         IF Len(prompts) = 0
         THEN /\ result' = [status |-> 500]
              /\ UNCHANGED <<others, requests, prompts, currentPrompt,
                             currentLetter, visitedPrompts, memories,
                             localPromptNumber, localPromptLetter, memoryDialog>>
         ELSE \E next \in { NextPosition(currentPromptValue, currentLetterValue,
                                          movement, character.visitedPrompts,
                                          prompts) },
                 rec \in { RecordResponse(character.memories, response) } :
              /\ next.nextPrompt <= MaxPrompt
              /\ CharCode(next.nextLetter) <= MaxCode
              /\ Len(rec.memories) <= MaxPool
              /\ others' = [others EXCEPT ![characterId] =
                    [@ EXCEPT !.currentPrompt = next.nextPrompt,
                              !.currentLetter = next.nextLetter,
                              !.visitedPrompts =
                                  TrackVisit(character.visitedPrompts,
                                             next.nextPrompt, next.nextLetter),
                              !.memories = rec.memories]]
              /\ result' = [status |-> 201,
                            entry |-> HistoryEntry(currentPromptValue, currentLetterValue,
                                                  diceRoll, response),
                            nextPrompt |-> next.nextPrompt,
                            nextLetter |-> next.nextLetter,
                            previousPrompt |-> currentPromptValue,
                            previousLetter |-> currentLetterValue,
                            movement |-> movement,
                            promptInfo |-> PromptInfo(prompts, next.nextPrompt,
                                                      next.nextLetter),
                            outcome |-> rec.outcome,
                            memoryUpdated |-> rec.memoryUpdated]
              /\ UNCHANGED <<requests, prompts, currentPrompt, currentLetter,
                             visitedPrompts, memories, localPromptNumber,
                             localPromptLetter, memoryDialog>>

\* POST /api/prompt-history without the check of the owner
PostPromptHistory_anyUser(user, characterId, diceRoll, response) ==
    UpdateCharacter(characterId, diceRoll, response)

\* POST /api/prompt-history (routes.ts 363-725) by the session of user for
\* the character characterId
PostPromptHistory(user, characterId, diceRoll, response) ==
    IF OwnedBy(user, characterId)
    THEN UpdateCharacter(characterId, diceRoll, response)
    ELSE /\ result' = [status |-> 404]
         /\ UNCHANGED <<others, requests, prompts, currentPrompt, currentLetter,
                        visitedPrompts, memories, localPromptNumber,
                        localPromptLetter, memoryDialog>>

RollShare ==
    \E user \in Users : \E characterId \in CharacterIds :
        \E d \in MemDice : \E r \in Responses :
            PostPromptHistory(user, characterId, d, r)

InitShare == CreateCharacter(MemCatalog, <<>>)

NextShare == RollShare

SpecShare == InitShare /\ [][NextShare]_vars

\* position, visit record and memory pool of a character
StateOf(characterId) ==
    IF characterId = 1
    THEN [currentPrompt |-> currentPrompt, currentLetter |-> currentLetter,
          visitedPrompts |-> visitedPrompts, memories |-> memories]
    ELSE [currentPrompt |-> others[characterId].currentPrompt,
          currentLetter |-> others[characterId].currentLetter,
          visitedPrompts |-> others[characterId].visitedPrompts,
          memories |-> others[characterId].memories]

\* the user a character belongs to
OwnerOf(characterId) == IF characterId = 1 THEN 1 ELSE others[characterId].userId

\* C26: a roll by a user for a character leaves every other character as it
\* was; when the user does not own the character it is answered 404 and no
\* character changes
C26_OnlyTheNamedCharacter ==
    [][\A user \in Users : \A characterId \in CharacterIds :
         \A d \in MemDice : \A r \in Responses :
           PostPromptHistory(user, characterId, d, r) =>
             /\ \A c \in CharacterIds \ {characterId} : StateOf(c)' = StateOf(c)
             /\ OwnerOf(characterId) # user =>
                   /\ result'.status = 404
                   /\ \A c \in CharacterIds : StateOf(c)' = StateOf(c)
      ]_vars

\* both characters have been moved by their owners and the last request, for
\* a character of another user, was answered 404
C26_Witness ==
    /\ result.status = 404
    /\ \A c \in CharacterIds :
          /\ Len(StateOf(c).visitedPrompts) > 0
          /\ Len(StateOf(c).memories) > 0
    /\ StateOf(1) # StateOf(2)

(* ---------------- the position and the visit record ---------------- *)

\* C27: after a roll answered 201 the stored position is one of the
\* (number, letter) pairs of the stored visit record
C27_PositionIsVisited ==
    result.status = 201 =>
        <<currentPrompt, currentLetter>> \in VisitedSet(visitedPrompts)

\* the character stands on a second letter of a number it came back to,
\* with two numbers in the visit record
C27_Witness ==
    /\ result.status = 201 /\ result.movement # 0
    /\ currentLetter = "b"
    /\ Len(visitedPrompts) >= 2
    /\ <<currentPrompt, "a">> \in VisitedSet(visitedPrompts)
    /\ <<currentPrompt, currentLetter>> \in VisitedSet(visitedPrompts)

\* the positions the player has been shown: the start (1, a) and every pair
\* of the visit record
Been == VisitedSet(visitedPrompts) \cup { <<1, "a">> }

\* C28: a roll moves the player to a position already shown only when all
\* of a, b and c of that number have been shown
C28_NoRepeatBeforeAllLetters ==
    [][(RolledStep /\ NextPos \in Been) =>
          \A l \in {"a", "b", "c"} : <<NextPos[1], l>> \in Been
      ]_vars

(* ---------------- a roll that no memory takes ---------------- *)

\* C29: a roll made when five memories are not struck out and none is open
\* is answered CapacityExceeded with the prompt-history row of the roll; the
\* position becomes the next position, the visit record holds it, and the
\* memory pool is the one before the roll
C29_AdvancesWithoutMemory ==
    [][(RollShown /\ result'.status = 201
           /\ NonRetired(memories) >= 5 /\ ~HasOpen(memories)) =>
          /\ result'.outcome = "CapacityExceeded" /\ ~result'.memoryUpdated
          /\ <<currentPrompt', currentLetter'>> = NextPos
          /\ <<localPromptNumber', localPromptLetter'>> = NextPos
          /\ NextPos \in VisitedSet(visitedPrompts')
          /\ \A p \in VisitedSet(visitedPrompts) : p \in VisitedSet(visitedPrompts')
          /\ result'.entry.promptNumber = currentPrompt
          /\ result'.entry.promptLetter = currentLetter
          /\ result'.entry.response \in Responses
          /\ result'.entry.diceRoll.d10 - result'.entry.diceRoll.d6
                = result'.movement
          /\ memories' = memories
      ]_vars

\* a roll answered CapacityExceeded has moved the character to another
\* number, which the visit record holds with the earlier ones, and the
\* five memories are as they were created
C29_Witness ==
    /\ result.status = 201 /\ result.outcome = "CapacityExceeded"
    /\ result.entry.promptNumber # currentPrompt
    /\ <<currentPrompt, currentLetter>> = <<result.nextPrompt, result.nextLetter>>
    /\ <<currentPrompt, currentLetter>> \in VisitedSet(visitedPrompts)
    /\ Len(visitedPrompts) >= 2
    /\ memories = FullPool

(* ---------------- the position a roll advances from ---------------- *)

\* the position of the character row the handler read for the request of
\* tab t
StoredAtRoll(t) ==
    <<requests[t].character.currentPrompt, requests[t].character.currentLetter>>

\* the position the answer to tab t says the roll advanced from
AdvancedFrom(t) ==
    <<requests[t].answer.previousPrompt, requests[t].answer.previousLetter>>

\* C30 as stated: every answered roll advanced from the position that was
\* stored for the character when the handler read the row
C30_AdvancesFromStored ==
    \A t \in Tabs :
        (requests[t].pc = "done" /\ requests[t].answer.status = 201) =>
            AdvancedFrom(t) = StoredAtRoll(t)

\* the step answers the request of tab t
Answers(t) ==
    /\ requests[t].pc = "read" /\ requests'[t].pc = "done"
    /\ requests'[t].answer.status = 201

\* C30 amended: every answered roll advanced from the position its request
\* carried, the local position of the tab, and the position it chose is
\* stored over whatever position the row held
C30_AdvancesFromRequest ==
    [][\A t \in Tabs :
          Answers(t) =>
              /\ AdvancedFrom(t)' = <<requests[t].promptNumber,
                                      requests[t].promptLetter>>
              /\ <<currentPrompt', currentLetter'>> =
                    <<requests'[t].answer.nextPrompt,
                      requests'[t].answer.nextLetter>>
      ]_vars

\* a tab whose local position was stale has been answered: the roll
\* advanced from the start the tab still showed and not from the stored
\* position the other tab's roll had left
C30_Witness ==
    \E t \in Tabs :
        /\ requests[t].pc = "done" /\ requests[t].answer.status = 201
        /\ AdvancedFrom(t) # StoredAtRoll(t)
        /\ AdvancedFrom(t) = <<1, "a">>
        /\ StoredAtRoll(t)[1] # 1

====
